---- MODULE Spec2Model ----
(***************************************************************************)
(* Model of the validation engine of ntt360/validator (validator.go).     *)
(*                                                                         *)
(* Go strings are modelled as sequences of one-character strings, so that  *)
(* strings.Split, strings.Contains, ucfirst and string concatenation are   *)
(* computed as the code computes them.  Literal message fragments are      *)
(* single elements of such a sequence.  A Go map is a function whose       *)
(* DOMAIN is its key set; ranging over a map picks the remaining keys in   *)
(* any order.  A Go slice is a record [isNil, elems].                      *)
(***************************************************************************)
EXTENDS Integers, Sequences, FiniteSets, TLC

\* ------------------------------------------------------------------ bounds
\* Largest number of rule tokens in one rule specification (all fields).
MaxTokens == 2
\* Largest number of keys in the message-override mapping.
MaxMsgs == 2

\* ----------------------------------------------------------------- strings
Lower == <<"a","b","c","d","e","f","g","h","i","j","k","l","m",
           "n","o","p","q","r","s","t","u","v","w","x","y","z">>
Upper == <<"A","B","C","D","E","F","G","H","I","J","K","L","M",
           "N","O","P","Q","R","S","T","U","V","W","X","Y","Z">>

\* strings.ToUpper on a one-character string
ToUpper(c) ==
  IF \E i \in 1..Len(Lower) : Lower[i] = c
  THEN Upper[CHOOSE i \in 1..Len(Lower) : Lower[i] = c]
  ELSE c

\* strings.Contains(s, sep) for a one-character sep
Contains(s, sep) == \E i \in 1..Len(s) : s[i] = sep

\* index of the first occurrence of sep in s, 0 when there is none
IndexOf(s, sep) ==
  IF Contains(s, sep)
  THEN CHOOSE i \in 1..Len(s) : s[i] = sep /\ \A j \in 1..(i-1) : s[j] # sep
  ELSE 0

RECURSIVE Split(_, _)
\* strings.Split(s, sep) for a one-character sep: n separators give n+1 parts
Split(s, sep) ==
  IF ~Contains(s, sep)
  THEN <<s>>
  ELSE <<SubSeq(s, 1, IndexOf(s, sep) - 1)>>
         \o Split(SubSeq(s, IndexOf(s, sep) + 1, Len(s)), sep)

RECURSIVE Join(_, _)
\* strings.Join(parts, sep): how a caller writes a pipe-delimited rule string
Join(parts, sep) ==
  IF Len(parts) = 0 THEN <<>>
  ELSE IF Len(parts) = 1 THEN parts[1]
  ELSE parts[1] \o <<sep>> \o Join(Tail(parts), sep)

\* ---------------------------------------------------------------- literals
def      == <<"d","e","f">>
nullable == <<"n","u","l","l","a","b","l","e">>
Nullable == <<"N","u","l","l","a","b","l","e">>

\* the keys of validateMap
validateMap ==
  { <<"R","e","q","u","i","r","e","d">>,
    <<"M","i","n">>,
    <<"M","a","x">>,
    <<"R","e","g","e","x">>,
    <<"I","n","t">>,
    <<"N","u","m","e","r","i","c">>,
    Nullable,
    <<"E","m","a","i","l">>,
    <<"U","r","l">>,
    <<"M","o","b","i","l","e">>,
    <<"I","n">>,
    <<"L","t">>,
    <<"L","t","e">>,
    <<"G","t">>,
    <<"G","t","e">>
  }

EmptyMap == [x \in {} |-> x]

\* ucfirst panics (slice bounds out of range) on the empty string
ucfirstPanics(str) == Len(str) = 0

\* strings.ToUpper(str[0:1]) + str[1:], for a non-empty str
ucfirst(str) == <<ToUpper(str[1])>> \o SubSeq(str, 2, Len(str))

\* inArray(arr, elem)
inArray(arr, elem) == \E i \in 1..Len(arr) : arr[i] = elem

\* ------------------------------------------------------------------ inputs
\* field names used by the callers of New
Fields == { <<"a">>, <<"b">> }

\* rule tokens the callers write: "min:1", "nullable", "in:a:b", "mIN"
Tokens ==
  { <<"m","i","n",":","1">>,
    nullable,
    <<"i","n",":","a",":","b">>,
    <<"m","I","N">> }

TokenLists == UNION { [1..k -> Tokens] : k \in 0..MaxTokens }

RECURSIVE SumLen(_, _)
SumLen(s, D) ==
  IF D = {} THEN 0
  ELSE LET f == CHOOSE x \in D : TRUE IN Len(s[f]) + SumLen(s, D \ {f})

\* what the caller means: field -> ordered token list
RuleSpecs ==
  { s \in UNION { [D -> TokenLists] : D \in SUBSET Fields } :
      SumLen(s, DOMAIN s) <= MaxTokens }

\* a Go slice: nil, or a list of values
NilSlice == [isNil |-> TRUE, elems |-> <<>>]
Slice(l) == [isNil |-> FALSE, elems |-> l]

\* value lists of the data under test: nil, {}, {""}, {"", "1"}
ValueLists ==
  { NilSlice, Slice(<<>>), Slice(<< <<>> >>), Slice(<< <<>>, <<"1">> >>) }

DataSets == UNION { [D -> ValueLists] : D \in SUBSET Fields }

\* a value of the rules argument, as reflect sees it: the Kind of the map
\* element, the dynamic type it holds, and its string or []string content
Item(kind, dyn, l) ==
  [kind |-> kind, dyn |-> dyn,
   str |-> IF dyn = "string" THEN Join(l, "|") ELSE <<>>,
   arr |-> IF dyn = "[]string" THEN l ELSE <<>>]

RulesTypes ==
  { "map[string]string", "map[string][]string", "map[string]interface {}",
    "map[string]int" }

RawItems(t, l) ==
  IF t = "map[string]string" THEN { Item("string", "string", l) }
  ELSE IF t = "map[string][]string" THEN { Item("slice", "[]string", l) }
  ELSE IF t = "map[string]interface {}"
  THEN { Item("interface", d, l) : d \in {"string", "[]string", "int"} }
  ELSE { Item("int", "int", l) }

RawMaps(t, s) ==
  { i \in [DOMAIN s -> UNION { RawItems(t, s[f]) : f \in DOMAIN s }] :
      \A f \in DOMAIN s : i[f] \in RawItems(t, s[f]) }

\* the values the rules argument of New is drawn from
RawRules ==
  UNION { { [type |-> t, items |-> i] : i \in RawMaps(t, s) } :
          t \in RulesTypes, s \in RuleSpecs }

\* message-override keys: "a", "a.min", "a.", "a.mIN"
MsgKeys ==
  { <<"a">>,
    <<"a",".","m","i","n">>,
    <<"a",".">>,
    <<"a",".","m","I","N">> }

MsgText(k) == <<"custom message of ">> \o k

Messages ==
  { [k \in K |-> MsgText(k)] : K \in { X \in SUBSET MsgKeys : Cardinality(X) <= MaxMsgs } }

\* ------------------------------------------------------------ formatRules
formatRulesPanics(r) ==
  /\ r.type # "map[string][]string"
  /\ r.type # "map[string]string"
  /\ r.type # "map[string]interface {}"

\* whether the loop body assigns fmtRules[keyStr] for this element
fmtItemKept(it) ==
  \/ it.kind = "string"
  \/ it.kind = "interface" /\ it.dyn \in {"string", "[]string"}
  \/ it.kind = "slice"

fmtItem(it) ==
  IF it.kind = "string" THEN Split(it.str, "|")
  ELSE IF it.kind = "interface" /\ it.dyn = "string" THEN Split(it.str, "|")
  ELSE it.arr

formatRules(r) ==
  [k \in { k \in DOMAIN r.items : fmtItemKept(r.items[k]) } |-> fmtItem(r.items[k])]

\* ------------------------------------------------------- error recording
\* existError as it would be if it never found the field
existErrorNotFound(ve, field) == -1

\* existError: 0-based index of the entry of field, -1 when there is none
existError(ve, field) ==
  IF \E i \in 1..Len(ve) : ve[i].Field = field
  THEN (CHOOSE i \in 1..Len(ve) :
          ve[i].Field = field /\ \A j \in 1..(i-1) : ve[j].Field # field) - 1
  ELSE -1

\* insertError; a nil ValidErrors is the empty sequence
insertError(ve, key, field, msg, rule) ==
  IF ve = <<>>
  THEN << [Field |-> field, Errors |-> (key :> msg)] >>
  ELSE LET index == existError(ve, field) IN
       IF index >= 0
       THEN [ve EXCEPT ![index + 1].Errors = (key :> msg) @@ @]
       ELSE Append(ve, [Field |-> field, Errors |-> (key :> msg)])

notExistCustomInsert(ve, field, rule) ==
  insertError(ve, rule, field,
              <<"the field ">> \o field \o <<" not valid in ">> \o rule, rule)

\* addErrors as it would be if the field-wide override replaced the rule's key
addErrorsDefFirst(ve, cm, field, rule, value) ==
  IF field \in DOMAIN cm
  THEN IF def \in DOMAIN cm[field]
       THEN insertError(ve, def, field, cm[field][def], rule)
       ELSE IF rule \notin DOMAIN cm[field]
            THEN notExistCustomInsert(ve, field, rule)
            ELSE insertError(ve, rule, field, cm[field][rule], rule)
  ELSE notExistCustomInsert(ve, field, rule)

addErrors(ve, cm, field, rule, value) ==
  IF field \in DOMAIN cm
  THEN LET ve1 == IF def \in DOMAIN cm[field]
                  THEN insertError(ve, def, field, cm[field][def], rule)
                  ELSE ve
       IN IF rule \notin DOMAIN cm[field]
          THEN notExistCustomInsert(ve1, field, rule)
          ELSE insertError(ve1, rule, field, cm[field][rule], rule)
  ELSE notExistCustomInsert(ve, field, rule)

\* isVerifiable as it would be if every field were verifiable
isVerifiableAlways(d, key, rs) == TRUE

\* isVerifiable(key, rules) on v.data = d
isVerifiable(d, key, rs) ==
  IF inArray(rs, nullable)
  THEN IF key \notin DOMAIN d THEN FALSE
       ELSE IF ~d[key].isNil
            THEN \E i \in 1..Len(d[key].elems) : Len(d[key].elems[i]) > 0
            ELSE TRUE
  ELSE TRUE

\* addMessage; a nil customMsg is the empty map
addMessage(cm, field, rule, msg) ==
  LET k == IF Len(rule) > 0 THEN rule ELSE def IN
  IF field \in DOMAIN cm
  THEN [cm EXCEPT ![field] = (k :> msg) @@ @]
  ELSE (field :> (k :> msg)) @@ cm

\* ---------------------------------------------------------- token parsing
\* parse, lines 132-138: rule name and parameter of a rule token
ruleNameOf(rule) ==
  LET flagIndex == Split(rule, ":") IN
  IF Len(flagIndex) > 1 THEN flagIndex[1] ELSE rule

paramOf(rule) ==
  LET flagIndex == Split(rule, ":") IN
  IF Len(flagIndex) > 1 THEN flagIndex[2] ELSE <<>>

\* ------------------------------------------------------------------- state
VARIABLES
  pc,           \* where New is: "New", "missingCheck", "parseMessage", "run",
                \* "returned" (New returned its two results), "panicked"
  keys,         \* formatRules: rulesVals.MapKeys(), the keys of the rules argument
  data,         \* Validator.data
  rules,        \* Validator.rules (fmtRules)
  customMsg,    \* Validator.customMsg
  ValidErrors,  \* Validator.ValidErrors
  message,      \* parseMessage: message, the argument of the call in progress
  todo,         \* keys the current range loop has still to visit
  key,          \* parse: key
  idx,          \* parse: position of the next rule in rules, 0 outside parse
  calls,        \* the predicate invocations made through dynamicFunc.Call
  err,          \* the error New returned
  panicMsg      \* the value New panicked with

vars == << pc, keys, data, rules, customMsg, ValidErrors, message,
           todo, key, idx, calls, err, panicMsg >>

NilErr == [isNil |-> TRUE, msg |-> <<>>]
ErrorsNew(text) == [isNil |-> FALSE, msg |-> text]

Init ==
  /\ pc = "New"
  /\ keys = {}
  /\ data = EmptyMap
  /\ rules = EmptyMap
  /\ customMsg = EmptyMap
  /\ ValidErrors = <<>>
  /\ message = EmptyMap
  /\ todo = {}
  /\ key = <<>>
  /\ idx = 0
  /\ calls = {}
  /\ err = NilErr
  /\ panicMsg = <<>>

Panic(text) ==
  /\ pc' = "panicked"
  /\ panicMsg' = text
  /\ todo' = {}
  /\ idx' = 0

\* New, lines 53-58, when formatRules panics on the type of rules
NewFormatRulesPanic ==
  /\ pc = "New"
  /\ \E r \in RawRules :
       /\ formatRulesPanics(r)
       /\ keys' = DOMAIN r.items
       /\ Panic(<<"the rules only support map[string][]string or map[string]string">>)
  /\ UNCHANGED << data, rules, customMsg, ValidErrors, message, key, calls, err >>

\* New, lines 57-59: fmtRules := formatRules(rules), the Validator is built
\* and missingCheck is called
NewFormatRules ==
  /\ pc = "New"
  /\ \E d \in DataSets, r \in RawRules :
       /\ ~formatRulesPanics(r)
       /\ keys' = DOMAIN r.items
       /\ data' = d
       /\ rules' = formatRules(r)
       /\ todo' = DOMAIN formatRules(r)
  /\ pc' = "missingCheck"
  /\ UNCHANGED << customMsg, ValidErrors, message, key, idx, calls, err,
                  panicMsg >>

\* missingCheck, lines 356-359
MissingCheckNoRules ==
  /\ pc = "missingCheck"
  /\ DOMAIN rules = {}
  /\ Panic(<<"no validation rules">>)
  /\ UNCHANGED << keys, data, rules, customMsg, ValidErrors,
                  message, key, calls, err >>

\* missingCheck's loop body as it would be without the nullable test
missingCheckBodyNoNullable(ve, d, rs, k) ==
  IF k \notin DOMAIN d
  THEN insertError(ve, def, k, <<"the param ">> \o k \o <<" not valid!">>, <<"n","o">>)
  ELSE ve

\* the entries missingCheck's loop body leaves for field k
missingCheckBody(ve, d, rs, k) ==
  IF ~inArray(rs[k], nullable) /\ k \notin DOMAIN d
  THEN insertError(ve, def, k, <<"the param ">> \o k \o <<" not valid!">>, <<"n","o">>)
  ELSE ve

\* missingCheck, lines 360-366: one iteration of the range loop
MissingCheckField ==
  /\ pc = "missingCheck"
  /\ \E k \in todo :
       /\ ValidErrors' = missingCheckBody(ValidErrors, data, rules, k)
       /\ todo' = todo \ {k}
  /\ UNCHANGED << pc, keys, data, rules, customMsg, message, key,
                  idx, calls, err, panicMsg >>

\* New, lines 60-66: the error surfaced for missing fields
missingError(ve) ==
  IF def \in DOMAIN ve[1].Errors
  THEN ErrorsNew(ve[1].Errors[def])
  ELSE ErrorsNew(<<"missing valid error">>)

\* missingCheck returned false: New returns its first missing-field error
NewReturnMissing ==
  /\ pc = "missingCheck"
  /\ DOMAIN rules # {}
  /\ todo = {}
  /\ ~(ValidErrors = <<>> \/ Len(ValidErrors) <= 0)
  /\ err' = missingError(ValidErrors)
  /\ pc' = "returned"
  /\ UNCHANGED << keys, data, rules, customMsg, ValidErrors,
                  message, todo, key, idx, calls, panicMsg >>

\* missingCheck returned true: New calls parseMessage(message), lines 53-56
\* and 68.  The message argument of New is not read before this call, so it
\* is drawn here; an empty mapping makes parseMessage return at once.
NewParseMessage ==
  /\ pc = "missingCheck"
  /\ DOMAIN rules # {}
  /\ todo = {}
  /\ (ValidErrors = <<>> \/ Len(ValidErrors) <= 0)
  /\ pc' = "parseMessage"
  /\ \E m \in Messages :
       /\ message' = m
       /\ todo' = DOMAIN m
  /\ UNCHANGED << keys, data, rules, customMsg, ValidErrors, key, idx, calls,
                  err, panicMsg >>

\* parseMessage, lines 274-287: whether the loop body panics on key k
parseMessagePanics(k) ==
  Contains(k, ".") /\ ucfirstPanics(Split(k, ".")[2])

\* parseMessage, lines 274-287: customMsg after the loop body for key k
parseMessageBody(cm, d, k, item) ==
  IF Contains(k, ".")
  THEN LET itemArr == Split(k, ".")
           field == itemArr[1]
           rule == itemArr[2]
       IN IF ucfirst(rule) \in validateMap /\ field \in DOMAIN d
          THEN addMessage(cm, field, rule, item)
          ELSE cm
  ELSE IF k \in DOMAIN d THEN addMessage(cm, k, <<>>, item) ELSE cm

\* parseMessage: one iteration of the range loop
ParseMessageKey ==
  /\ pc = "parseMessage"
  /\ \E k \in todo :
       /\ ~parseMessagePanics(k)
       /\ customMsg' = parseMessageBody(customMsg, data, k, message[k])
       /\ todo' = todo \ {k}
  /\ UNCHANGED << pc, keys, data, rules, ValidErrors, message, key,
                  idx, calls, err, panicMsg >>

\* parseMessage: ucfirst(rule) on an empty rule part
ParseMessagePanic ==
  /\ pc = "parseMessage"
  /\ \E k \in todo : parseMessagePanics(k)
  /\ Panic(<<"runtime error: slice bounds out of range">>)
  /\ UNCHANGED << keys, data, rules, customMsg, ValidErrors,
                  message, key, calls, err >>

\* parseMessage returned (its argument is gone): New calls run
NewRun ==
  /\ pc = "parseMessage"
  /\ todo = {}
  /\ pc' = "run"
  /\ message' = EmptyMap
  /\ todo' = DOMAIN rules
  /\ UNCHANGED << keys, data, rules, customMsg, ValidErrors, key, idx, calls,
                  err, panicMsg >>

\* run, line 111: the range loop picks the next field and calls parse
RunField ==
  /\ pc = "run"
  /\ idx = 0
  /\ \E k \in todo :
       /\ todo' = todo \ {k}
       /\ IF Len(rules[k]) > 0
          THEN key' = k /\ idx' = 1
          ELSE key' = <<>> /\ idx' = 0
  /\ UNCHANGED << pc, keys, data, rules, customMsg, ValidErrors,
                  message, calls, err, panicMsg >>

\* parse: the loop moves to the next rule of the field, or parse returns
NextRule ==
  IF idx < Len(rules[key])
  THEN idx' = idx + 1 /\ key' = key
  ELSE idx' = 0 /\ key' = <<>>

\* v.data[key]: the zero value of a missing key is the nil slice
dataOf(d, k) == IF k \in DOMAIN d THEN d[k] ELSE NilSlice

\* parse, line 140, for an empty rule name: ucfirst panics
ParseEmptyName ==
  /\ pc = "run"
  /\ idx > 0
  /\ ucfirstPanics(ruleNameOf(rules[key][idx]))
  /\ Panic(<<"runtime error: slice bounds out of range">>)
  /\ UNCHANGED << keys, data, rules, customMsg, ValidErrors,
                  message, key, calls, err >>

\* parse, lines 140-142: the rule name is not a key of validateMap
ParseNotExist ==
  /\ pc = "run"
  /\ idx > 0
  /\ ~ucfirstPanics(ruleNameOf(rules[key][idx]))
  /\ ucfirst(ruleNameOf(rules[key][idx])) \notin validateMap
  /\ Panic(ruleNameOf(rules[key][idx]) \o <<"the valid rule not exist">>)
  /\ UNCHANGED << keys, data, rules, customMsg, ValidErrors,
                  message, key, calls, err >>

\* parse as it would be if a skipped rule were not looked up in validateMap
ParseSkipUnresolved ==
  /\ pc = "run"
  /\ idx > 0
  /\ ~isVerifiable(data, key, rules[key])
  /\ NextRule
  /\ UNCHANGED << pc, keys, data, rules, customMsg, ValidErrors,
                  message, todo, calls, err, panicMsg >>

\* parse, line 144: the field is not verifiable, the rule is skipped
ParseSkip ==
  /\ pc = "run"
  /\ idx > 0
  /\ ~ucfirstPanics(ruleNameOf(rules[key][idx]))
  /\ ucfirst(ruleNameOf(rules[key][idx])) \in validateMap
  /\ ~isVerifiable(data, key, rules[key])
  /\ NextRule
  /\ UNCHANGED << pc, keys, data, rules, customMsg, ValidErrors,
                  message, todo, calls, err, panicMsg >>

\* the record of one dynamicFunc.Call(arguments)
Call(rule, k, d, ok) ==
  [fn |-> ucfirst(ruleNameOf(rule)), field |-> k, token |-> rule,
   rule |-> ruleNameOf(rule), value |-> dataOf(d, k), param |-> paramOf(rule),
   ok |-> ok]

\* parse, lines 144-156: the predicate is called and a failure is recorded
ParseCall ==
  /\ pc = "run"
  /\ idx > 0
  /\ ~ucfirstPanics(ruleNameOf(rules[key][idx]))
  /\ ucfirst(ruleNameOf(rules[key][idx])) \in validateMap
  /\ isVerifiable(data, key, rules[key])
  /\ \E ok \in BOOLEAN :
       /\ calls' = calls \cup { Call(rules[key][idx], key, data, ok) }
       /\ ValidErrors' =
            IF ~ok
            THEN addErrors(ValidErrors, customMsg, key,
                           ruleNameOf(rules[key][idx]), dataOf(data, key))
            ELSE ValidErrors
  /\ NextRule
  /\ UNCHANGED << pc, keys, data, rules, customMsg, message, todo,
                  err, panicMsg >>

\* run's error as it would be if "def" had no priority
runErrorsNoDef(ve) ==
  IF ve # <<>> \/ Len(ve) > 0
  THEN { ErrorsNew(ve[1].Errors[k]) : k \in DOMAIN ve[1].Errors }
  ELSE { NilErr }

\* run, lines 115-127: the errors run can return for ValidErrors = ve
runErrors(ve) ==
  IF ve # <<>> \/ Len(ve) > 0
  THEN IF def \in DOMAIN ve[1].Errors
       THEN { ErrorsNew(ve[1].Errors[def]) }
       ELSE IF DOMAIN ve[1].Errors # {}
            THEN { ErrorsNew(ve[1].Errors[k]) : k \in DOMAIN ve[1].Errors }
            ELSE { ErrorsNew(<<>>) }
  ELSE { NilErr }

\* run returns, and New returns what run returned
RunReturn ==
  /\ pc = "run"
  /\ idx = 0
  /\ todo = {}
  /\ \E e \in runErrors(ValidErrors) : err' = e
  /\ pc' = "returned"
  /\ UNCHANGED << keys, data, rules, customMsg, ValidErrors,
                  message, todo, key, idx, calls, panicMsg >>

Next ==
  \/ NewFormatRulesPanic
  \/ NewFormatRules
  \/ MissingCheckNoRules
  \/ MissingCheckField
  \/ NewReturnMissing
  \/ NewParseMessage
  \/ ParseMessageKey
  \/ ParseMessagePanic
  \/ NewRun
  \/ RunField
  \/ ParseEmptyName
  \/ ParseNotExist
  \/ ParseSkip
  \/ ParseCall
  \/ RunReturn

Spec == Init /\ [][Next]_vars

\* ------------------------------------------------------------- properties
\* the fields of the rule specification that are absent from data and are
\* not marked nullable
Missing ==
  { f \in DOMAIN rules : f \notin DOMAIN data /\ ~inArray(rules[f], nullable) }

EntryFields == { ValidErrors[i].Field : i \in 1..Len(ValidErrors) }

\* the predicate invocations that returned false
Failures == { c \in calls : ~c.ok }

\* C1: when some field of the rule specification is absent from data and not
\* nullable, New does not abort and evaluates no rule; when it has returned,
\* the Result holds exactly one entry per such field, whose only key is "def"
\* with the message "the param <field> not valid!", no entry for another
\* field, and the error is the message of the first entry.
C1_MissingFields ==
  Missing # {} =>
    /\ pc \in {"missingCheck", "returned"}
    /\ calls = {}
    /\ pc = "returned" =>
         /\ EntryFields = Missing
         /\ Len(ValidErrors) = Cardinality(Missing)
         /\ \A i \in 1..Len(ValidErrors) :
              /\ DOMAIN ValidErrors[i].Errors = { <<"d","e","f">> }
              /\ ValidErrors[i].Errors[<<"d","e","f">>] =
                   <<"the param ">> \o ValidErrors[i].Field \o <<" not valid!">>
         /\ ~err.isNil
         /\ err.msg = <<"the param ">> \o ValidErrors[1].Field \o <<" not valid!">>

\* C1 witness: New returned for two missing fields
C1_Witness ==
  /\ pc = "returned"
  /\ Cardinality(Missing) = 2
  /\ Len(ValidErrors) = 2

\* C9: no two entries of the Result have the same field name.
C9_OneEntryPerField ==
  \A i, j \in 1..Len(ValidErrors) :
    i # j => ValidErrors[i].Field # ValidErrors[j].Field

\* C9 witness: two rules failed for one field, whose single entry has two keys
C9_Witness ==
  /\ Len(ValidErrors) = 1
  /\ Cardinality(DOMAIN ValidErrors[1].Errors) >= 2
  /\ \E c1, c2 \in Failures :
       /\ c1.field = ValidErrors[1].Field
       /\ c2.field = c1.field
       /\ c1.rule # c2.rule

\* C8: when New has returned, the error is nil exactly when the Result has no
\* entries, which is so when no required field is missing and every predicate
\* invoked returned true; otherwise the error is the "def" message of the
\* first entry if it has one, else one of the messages of the first entry.
C8_ReturnedError ==
  pc = "returned" =>
    /\ err.isNil <=> Len(ValidErrors) = 0
    /\ (Missing = {} /\ Failures = {}) => (Len(ValidErrors) = 0 /\ err.isNil)
    /\ Len(ValidErrors) > 0 =>
         IF <<"d","e","f">> \in DOMAIN ValidErrors[1].Errors
         THEN err.msg = ValidErrors[1].Errors[<<"d","e","f">>]
         ELSE \E k \in DOMAIN ValidErrors[1].Errors :
                err.msg = ValidErrors[1].Errors[k]

\* C8 witness: New returned the "def" message of a first entry that also has
\* a rule key
C8_Witness ==
  /\ pc = "returned"
  /\ Failures # {}
  /\ ~err.isNil
  /\ <<"d","e","f">> \in DOMAIN ValidErrors[1].Errors
  /\ Cardinality(DOMAIN ValidErrors[1].Errors) >= 2

\* the entry of field f in the Result
EntryOf(f) ==
  ValidErrors[CHOOSE i \in 1..Len(ValidErrors) : ValidErrors[i].Field = f]

\* C7: after the predicate of rule R returned false for field F, the entry of
\* F maps R to the override registered for F and R if there is one, else to
\* "the field <F> not valid in <R>", and maps "def" to the field-wide override
\* exactly when one is registered for F.
C7_FailureMessages ==
  \A c \in Failures :
    /\ c.field \in EntryFields
    /\ c.rule \in DOMAIN EntryOf(c.field).Errors
    /\ EntryOf(c.field).Errors[c.rule] =
         IF c.field \in DOMAIN customMsg /\ c.rule \in DOMAIN customMsg[c.field]
         THEN MsgText(c.field \o <<".">> \o c.rule)
         ELSE <<"the field ">> \o c.field \o <<" not valid in ">> \o c.rule
    /\ <<"d","e","f">> \in DOMAIN EntryOf(c.field).Errors
         <=> (c.field \in DOMAIN customMsg
              /\ <<"d","e","f">> \in DOMAIN customMsg[c.field])
    /\ <<"d","e","f">> \in DOMAIN EntryOf(c.field).Errors
         => EntryOf(c.field).Errors[<<"d","e","f">>] = MsgText(c.field)

\* C7 witness: a field with a field-wide and a rule-specific override failed
\* the overridden rule and another rule
C7_Witness ==
  \E c1, c2 \in Failures :
    /\ c1.field = c2.field
    /\ c1.field \in DOMAIN customMsg
    /\ DOMAIN customMsg[c1.field] = { <<"d","e","f">>, c1.rule }
    /\ c2.rule \notin DOMAIN customMsg[c1.field]
    /\ DOMAIN EntryOf(c1.field).Errors = { <<"d","e","f">>, c1.rule, c2.rule }

\* whether every value of the list has length zero (so for a list without values)
AllEmpty(v) == \A i \in 1..Len(v.elems) : Len(v.elems[i]) = 0

\* the fields marked nullable whose value list is absent or has no value of
\* non-zero length
NullableSkipped ==
  { f \in DOMAIN rules :
      /\ inArray(rules[f], <<"n","u","l","l","a","b","l","e">>)
      /\ (f \notin DOMAIN data \/ AllEmpty(data[f])) }

\* C2: no predicate is invoked and no entry is recorded for a nullable field
\* whose value list is absent or has only values of length zero.
C2_NullableSkipped ==
  \A f \in NullableSkipped :
    /\ \A c \in calls : c.field # f
    /\ f \notin EntryFields

\* C3: the predicate registered under "Nullable" is never invoked.
C3_NullableNeverInvoked ==
  \A c \in calls : c.fn # <<"N","u","l","l","a","b","l","e">>

\* C3, amended: the predicate registered under "Nullable" is invoked only for
\* a field that is present in data, and never for a nullable field whose
\* non-nil value list has only values of length zero.
C3_NullableOnlyVerifiable ==
  \A c \in calls :
    c.fn = <<"N","u","l","l","a","b","l","e">> =>
      /\ c.field \in DOMAIN data
      /\ inArray(rules[c.field], <<"n","u","l","l","a","b","l","e">>) =>
           (data[c.field].isNil \/ ~AllEmpty(data[c.field]))

\* C3 witness: the Nullable predicate was invoked for a nullable field that
\* is present with a non-empty value
C3_Witness ==
  \E c \in calls :
    /\ c.fn = <<"N","u","l","l","a","b","l","e">>
    /\ c.token = <<"n","u","l","l","a","b","l","e">>
    /\ c.field \in DOMAIN data
    /\ ~data[c.field].isNil
    /\ ~AllEmpty(data[c.field])

\* the text of a token before its first colon (the whole token without one)
BeforeColon(t) == IF Contains(t, ":") THEN SubSeq(t, 1, IndexOf(t, ":") - 1) ELSE t

\* the text of a token after its first colon (empty without one)
AfterColon(t) == IF Contains(t, ":") THEN SubSeq(t, IndexOf(t, ":") + 1, Len(t)) ELSE <<>>

\* C4: every predicate invocation is looked up under the text before the
\* first colon of its token and gets the whole text after it as parameter.
C4_ParamIsRemainder ==
  \A c \in calls :
    /\ c.rule = BeforeColon(c.token)
    /\ c.param = AfterColon(c.token)

\* whether the rule name of a token is not a key of validateMap after its
\* first character is uppercased
Unknown(t) ==
  \/ BeforeColon(t) = <<>>
  \/ <<ToUpper(BeforeColon(t)[1])>> \o Tail(BeforeColon(t)) \notin validateMap

HasUnknown == \E f \in DOMAIN rules : \E i \in 1..Len(rules[f]) : Unknown(rules[f][i])

\* C5: New never returns for a rule specification with an unknown rule name.
C5_UnknownRuleAborts ==
  HasUnknown => pc # "returned"

\* C5, amended: when no required field is missing from data, New never returns
\* for a rule specification with an unknown rule name, and panics only with
\* "<name>the valid rule not exist" for one of its unknown names or with the
\* runtime error of ucfirst on an empty string.
C5_UnknownRuleAbortsUnlessMissing ==
  (HasUnknown /\ Missing = {}) =>
    /\ pc # "returned"
    /\ pc = "panicked" =>
         \/ panicMsg = <<"runtime error: slice bounds out of range">>
         \/ \E f \in DOMAIN rules : \E i \in 1..Len(rules[f]) :
              /\ Unknown(rules[f][i])
              /\ panicMsg = BeforeColon(rules[f][i]) \o <<"the valid rule not exist">>

\* C5 witness: New panicked on the unknown rule name of a nullable field that
\* is absent from data
C5_Witness ==
  /\ pc = "panicked"
  /\ panicMsg = <<"m","I","N","the valid rule not exist">>
  /\ \E f \in DOMAIN rules :
       /\ f \notin DOMAIN data
       /\ inArray(rules[f], <<"n","u","l","l","a","b","l","e">>)
       /\ inArray(rules[f], <<"m","I","N">>)

\* C6: New never returns a Result for a rules argument one of whose fields
\* is left out of the canonical rule mapping.
C6_BadShapeAborts ==
  (\E k \in keys : k \notin DOMAIN rules) => pc # "returned"

BeforeFirstDot(k) == SubSeq(k, 1, IndexOf(k, ".") - 1)
AfterFirstDot(k) == SubSeq(k, IndexOf(k, ".") + 1, Len(k))

\* whether a message key names a field absent from data or has an
\* unrecognized (or empty) rule part
Ignorable(k) ==
  IF Contains(k, ".")
  THEN \/ BeforeFirstDot(k) \notin DOMAIN data
       \/ Unknown(AfterFirstDot(k))
  ELSE k \notin DOMAIN data

\* C10: a message key that names a field absent from data or an unrecognized
\* rule is ignored: parseMessage does not abort and registers nothing for it.
C10_IgnoredKeys ==
  (pc \in {"parseMessage", "panicked"} /\ \E k \in DOMAIN message : Ignorable(k)) =>
    /\ pc # "panicked"
    /\ \A f \in DOMAIN customMsg : \A r \in DOMAIN customMsg[f] :
         \E k \in DOMAIN message :
           /\ ~Ignorable(k)
           /\ customMsg[f][r] = message[k]

====
